---- MODULE Spec2Model ----
(***************************************************************************)
(* Diffy: the changelog generation pipeline.                               *)
(*                                                                         *)
(* One run of POST /api/generate-changelog (the express handler) together  *)
(* with the functions of scripts/changelog-functions.js it drives:         *)
(* getRepositoryInfo, getRecentCommits, getAllCommitsInBatches,            *)
(* generateChangelog, saveChangelog, processBatch and processAllBatches.   *)
(* Every await of the code is a suspension point: one action issues the    *)
(* call, the next one receives what the collaborator answered.             *)
(***************************************************************************)
EXTENDS Integers, Sequences, FiniteSets, TLC

(***************************************************************************)
(* Bounds of the model.                                                    *)
(***************************************************************************)
MaxCommits == 25
MaxBatchSize == 5
MaxPages == 3

(***************************************************************************)
(* Program constants.                                                      *)
(***************************************************************************)
ProviderCeiling == 100
DefaultCommitCount == 10
DefaultBatchSize == 10
DefaultMaxEntries == 10
PacingDelay == 1000

Null == [tag |-> "null"]
NoDate == 0
InvalidDate == -1
Missing == "<missing>"
NoVersion == <<>>

Min(a, b) == IF a < b THEN a ELSE b

CeilDiv(a, b) == (a + b - 1) \div b

RECURSIVE SumLens(_)
SumLens(bs) == IF bs = <<>> THEN 0 ELSE Len(Head(bs).commits) + SumLens(Tail(bs))

VARIABLES
    req,            \* the request body after destructuring with defaults
    history,        \* the repository's commits, newest first
    pc,             \* position of the handler
    repoInfo,       \* what getRepositoryInfo returned
    commits,        \* recent mode: what getRecentCommits returned
    page,           \* getAllCommitsInBatches: page
    allBatches,     \* getAllCommitsInBatches: allBatches
    hasMoreCommits, \* getAllCommitsInBatches: hasMoreCommits
    totalCommits,   \* getAllCommitsInBatches: totalCommits
    batches,        \* what getAllCommitsInBatches returned to the handler
    i,              \* processAllBatches: loop index
    results,        \* processAllBatches: results
    bpc,            \* position of each processBatch invocation
    changelog,      \* recent mode: the draft generateChangelog returned
    batchChangelog, \* processBatch: changelog, one per invocation
    result,         \* what each processBatch invocation returned
    store,          \* rows of changelog_entries
    response,       \* the HTTP response sent
    listCalls,      \* log of octokit.repos.listCommits requests
    genCalls,       \* log of openai.chat.completions.create requests
    listAnswers,    \* log of what each listCommits request returned
    insertCalls,    \* log of supabase insert requests
    delays,         \* log of pacing delays
    unit,           \* a direct call of an exported function: its arguments and returns
    view            \* the public changelog page: its state and its requests in flight

vars == <<req, history, pc, repoInfo, commits, page, allBatches, hasMoreCommits,
          totalCommits, batches, i, results, bpc, changelog, batchChangelog, result, store,
          response, listCalls, listAnswers, genCalls, insertCalls, delays, unit, view>>

fetchVars == <<page, allBatches, hasMoreCommits, totalCommits>>
loopVars == <<i, results, bpc, batchChangelog, result>>
logVars == <<listCalls, listAnswers, genCalls, insertCalls, delays>>

(***************************************************************************)
(* The commit source: octokit.repos.listCommits({per_page, page}).         *)
(* The provider serves at most ProviderCeiling commits per page.           *)
(***************************************************************************)
History(n) == [c \in 1..n |-> [sha |-> c, date |-> n - c + 1]]

(***************************************************************************)
(* A commit's date is the author date, which need not follow the order of  *)
(* the listing, and formatCommit yields null (NoDate) when the commit      *)
(* carries neither an author date nor a committer date.  A date that       *)
(* new Date() cannot parse is InvalidDate.                                 *)
(***************************************************************************)
MaxIrregular == 2

IrregularDates == {NoDate, 1, 2, InvalidDate}

IrregularHistories ==
    UNION {{[c \in 1..n |-> [sha |-> c, date |-> d[c]]] : d \in [1..n -> IrregularDates]} :
           n \in 1..MaxIrregular}

ListCommits(perPage, pg) ==
    LET size == Min(perPage, ProviderCeiling)
        first == (pg - 1) * size + 1
        last == Min(pg * size, Len(history))
    IN  IF first > last THEN <<>> ELSE SubSeq(history, first, last)

ListOutcomes == {"ok", "throw"}

Answer(outcome, commitsData) == [threw |-> outcome = "throw", count |-> Len(commitsData)]

formatCommit(commit) == [sha |-> commit.sha, date |-> commit.date]

MapFormat(commitsData) == [c \in 1..Len(commitsData) |-> formatCommit(commitsData[c])]

(***************************************************************************)
(* The request body; fields the request leaves out take their defaults.    *)
(***************************************************************************)
Versions == {NoVersion, <<"v1">>}

Requests ==
    [mode : {"recent"}, commitCount : {1, 5, DefaultCommitCount, ProviderCeiling + 50},
     batchSize : {DefaultBatchSize},
     maxEntries : {DefaultMaxEntries}, version : Versions, dryRun : BOOLEAN,
     repoOwner : {"acme"}, repoName : {"diffy"}, githubToken : {"tok"}]
    \cup
    [mode : {"comprehensive"}, commitCount : {DefaultCommitCount},
     batchSize : (1..MaxBatchSize) \cup {ProviderCeiling, ProviderCeiling + 50},
     maxEntries : 0..MaxPages, version : Versions, dryRun : BOOLEAN,
     repoOwner : {"acme"}, repoName : {"diffy"}, githubToken : {"tok"}]
    \cup
    [mode : {"comprehensive"}, commitCount : {DefaultCommitCount},
     batchSize : {DefaultBatchSize}, maxEntries : {DefaultMaxEntries},
     version : Versions, dryRun : BOOLEAN,
     repoOwner : {"acme"}, repoName : {"diffy"}, githubToken : {"tok"}]
    \cup
    [mode : {"recent"}, commitCount : {DefaultCommitCount}, batchSize : {DefaultBatchSize},
     maxEntries : {DefaultMaxEntries}, version : {NoVersion}, dryRun : {FALSE},
     repoOwner : {"", "acme"}, repoName : {"", "diffy"}, githubToken : {"", "tok"}]

NoResponse == [status |-> 0, success |-> FALSE, message |-> "", mode |-> "",
               repoInfo |-> Null, commitsAnalyzed |-> 0, entry |-> Null, batchCount |-> 0,
               successfulBatches |-> 0, entries |-> <<>>]

Failure(status, message) == [NoResponse EXCEPT !.status = status, !.message = message]

Init ==
    /\ req \in Requests
    /\ history \in {History(n) : n \in 0..MaxCommits} \cup IrregularHistories
    /\ pc = "start"
    /\ repoInfo = Null
    /\ commits = <<>>
    /\ page = 1
    /\ allBatches = <<>>
    /\ hasMoreCommits = TRUE
    /\ totalCommits = 0
    /\ batches = <<>>
    /\ i = 0
    /\ results = <<>>
    /\ bpc = <<>>
    /\ changelog = Null
    /\ batchChangelog = <<>>
    /\ result = <<>>
    /\ store = <<>>
    /\ response = NoResponse
    /\ listCalls = <<>>
    /\ listAnswers = <<>>
    /\ genCalls = <<>>
    /\ insertCalls = <<>>
    /\ delays = <<>>
    /\ unit = Null
    /\ view = Null

(***************************************************************************)
(* app.post('/api/generate-changelog'): parameter validation, then the     *)
(* call of getRepositoryInfo.                                              *)
(***************************************************************************)
LacksRepository == req.repoOwner = "" \/ req.repoName = ""

TokenNotRequired == FALSE

LacksToken == req.githubToken = ""

HandleRequest ==
    /\ pc = "start"
    /\ IF LacksRepository
       THEN /\ response' = Failure(400, "Repository owner and name are required")
            /\ pc' = "done"
       ELSE IF LacksToken
       THEN /\ response' = Failure(400, "GitHub token is required")
            /\ pc' = "done"
       ELSE /\ pc' = "awaitRepoInfo"
            /\ UNCHANGED response
    /\ UNCHANGED <<req, unit, view, history, repoInfo, commits, fetchVars, batches, loopVars,
                   changelog, store, logVars>>


(***************************************************************************)
(* getRepositoryInfo returns the repository's data, or null when           *)
(* octokit.repos.get throws.                                               *)
(***************************************************************************)
RepoOutcomes == {"ok", "throw"}

getRepositoryInfo(outcome) ==
    IF outcome = "ok" THEN [name |-> req.repoName] ELSE Null

(***************************************************************************)
(* generateChangelog: what the generation service may answer, and the      *)
(* draft the function makes of it (null when the call throws, the content  *)
(* is empty or unparseable, or one of the three fields is missing/empty).  *)
(***************************************************************************)
Categories ==
    {"New Feature", "Enhancement", "Bug Fix", "Breaking Change", "Performance",
     "Documentation", "Other"}

NoJson(kind) == [kind |-> kind, title |-> Missing, description |-> Missing, category |-> Missing]

GenResponses ==
    {NoJson("throw"), NoJson("empty"), NoJson("badjson")}
    \cup [kind : {"json"}, title : {Missing, "", "T"}, description : {Missing, "", "D"},
          category : {Missing, "", "Bug Fix", "Refactor"}]

TruthyAcceptsEmpty(s) == s # Missing

Truthy(s) == s # Missing /\ s # ""

GenerateInputUnchecked(cs) == FALSE

GenerateHasNoInput(cs) == Len(cs) = 0

ParsedChangelogUnchecked(resp) ==
    [title |-> resp.title, description |-> resp.description, category |-> resp.category]

ParsedChangelog(resp) ==
    IF resp.kind = "json" /\ Truthy(resp.title) /\ Truthy(resp.description) /\ Truthy(resp.category)
    THEN [title |-> resp.title, description |-> resp.description, category |-> resp.category]
    ELSE Null

(***************************************************************************)
(* saveChangelog: the row to insert, the mock entry of a dry run, and the  *)
(* outcomes of the insert (a row is written and returned; the store        *)
(* answers with an error; the answer carries no row or no id; the call     *)
(* throws).  The times the store stamps on a row are left out.             *)
(***************************************************************************)
EntryToInsert(draft, version, dateRange, info) ==
    [title |-> draft.title, description |-> draft.description, category |-> draft.category,
     version |-> version,
     repo_owner |-> IF info = Null THEN Null ELSE info.owner,
     repo_name |-> IF info = Null THEN Null ELSE info.name,
     metadata |-> IF dateRange = Null THEN Null ELSE [date_range |-> dateRange]]

WithId(row, id) ==
    [id |-> id, title |-> row.title, description |-> row.description, category |-> row.category,
     version |-> row.version, repo_owner |-> row.repo_owner, repo_name |-> row.repo_name,
     metadata |-> row.metadata]

DryRunEntryFreshId(row) == WithId(row, ToString(Len(store) + 1))

DryRunEntry(row) == WithId(row, "dry-run-id")

DryRunIgnored(dryRun) == FALSE

IsDryRun(dryRun) == dryRun

InsertOutcomes == {"ok", "error", "nodata", "throw"}

StoreAccepts(row) == row.title # Missing /\ row.category # Missing

InsertOutcomesFor(row) ==
    IF StoreAccepts(row) THEN InsertOutcomes ELSE InsertOutcomes \ {"ok"}

InsertedRow(row) == WithId(row, ToString(Len(store) + 1))

SavedEntryIgnoringError(row, outcome) == InsertedRow(row)

SavedEntry(row, outcome) == IF outcome = "ok" THEN InsertedRow(row) ELSE Null

StoreAfterInsertingTwice(row, outcome) ==
    IF outcome = "ok" THEN Append(Append(store, InsertedRow(row)), InsertedRow(row)) ELSE store

StoreAfter(row, outcome) == IF outcome = "ok" THEN Append(store, InsertedRow(row)) ELSE store

ProvenanceOfRequest == [owner |-> req.repoOwner, name |-> req.repoName]

(***************************************************************************)
(* The responses of the handler.                                           *)
(***************************************************************************)
NoCommitsFound == Failure(404, "No commits found in GitHub repo")

GenerateFailed == Failure(500, "Failed to generate changelog with OpenAI")

SaveFailed == Failure(500, "Failed to save changelog entry to database")

RecentSuccess(savedEntry) ==
    [NoResponse EXCEPT !.status = 200, !.success = TRUE, !.mode = "recent",
                       !.repoInfo = repoInfo, !.commitsAnalyzed = Len(commits),
                       !.entry = savedEntry]

ReportCountingSuccessesOnly(rs) ==
    [NoResponse EXCEPT !.status = 200, !.success = TRUE, !.mode = "comprehensive",
                       !.repoInfo = repoInfo, !.batchCount = Len(rs),
                       !.successfulBatches = Len(rs), !.entries = rs]

ReportFailingOnPartial(rs) ==
    IF Len(rs) < Len(batches)
    THEN Failure(500, "Error generating changelog")
    ELSE [NoResponse EXCEPT !.status = 200, !.success = TRUE, !.mode = "comprehensive",
                            !.repoInfo = repoInfo, !.batchCount = Len(batches),
                            !.successfulBatches = Len(rs), !.entries = rs]

ComprehensiveSuccess(rs) ==
    [NoResponse EXCEPT !.status = 200, !.success = TRUE, !.mode = "comprehensive",
                       !.repoInfo = repoInfo, !.batchCount = Len(batches),
                       !.successfulBatches = Len(rs), !.entries = rs]

(***************************************************************************)
(* new Date(x).toISOString() throws a RangeError for a date that does not  *)
(* parse.  The code converts only non-null dates: the two ends of a batch  *)
(* in processBatch, and every commit's date in generateChangelog, before   *)
(* any try block.  The handler's inner catch answers 401 to any exception. *)
(***************************************************************************)
ToISOStringThrows(date) == date # NoDate /\ date = InvalidDate

GenerateThrows(cs) == \E c \in DOMAIN cs : ToISOStringThrows(cs[c].date)

ProcessBatchThrows(batch) ==
    \/ ToISOStringThrows(batch.fromDate)
    \/ ToISOStringThrows(batch.toDate)
    \/ (~ GenerateHasNoInput(batch.commits) /\ GenerateThrows(batch.commits))

HandlerCaught == Failure(401, "Failed to authenticate with GitHub")

(***************************************************************************)
(* getRepositoryInfo returns to the handler, which answers 404 on null,    *)
(* and otherwise calls getRecentCommits (recent mode) or enters            *)
(* getAllCommitsInBatches (any other mode).                                *)
(***************************************************************************)
RepoInfoReturns ==
    /\ pc = "awaitRepoInfo"
    /\ \E outcome \in RepoOutcomes :
        /\ repoInfo' = getRepositoryInfo(outcome)
        /\ IF repoInfo' = Null
           THEN /\ response' = Failure(404, "Failed to fetch repository info")
                /\ pc' = "done"
                /\ UNCHANGED <<fetchVars, listCalls>>
           ELSE IF req.mode = "recent"
           THEN /\ listCalls' = Append(listCalls, [per_page |-> req.commitCount, page |-> 1])
                /\ pc' = "awaitRecentCommits"
                /\ UNCHANGED <<fetchVars, response>>
           ELSE /\ page' = 1
                /\ allBatches' = <<>>
                /\ hasMoreCommits' = TRUE
                /\ totalCommits' = 0
                /\ pc' = "sweepLoop"
                /\ UNCHANGED <<listCalls, response>>
    /\ UNCHANGED <<req, unit, view, history, commits, batches, loopVars, changelog, store,
                   listAnswers, genCalls, insertCalls, delays>>

(***************************************************************************)
(* Recent mode: getRecentCommits returns (an empty list when listCommits   *)
(* throws); the handler answers 404 on an empty list and otherwise calls   *)
(* generateChangelog, which issues the generation request.                 *)
(***************************************************************************)
NoCommitsUnchecked(cs) == FALSE

NoCommits(cs) == Len(cs) = 0

getRecentCommits(outcome) ==
    IF outcome = "ok" THEN MapFormat(ListCommits(req.commitCount, 1)) ELSE <<>>

RecentCommitsReturn ==
    /\ pc = "awaitRecentCommits"
    /\ \E outcome \in ListOutcomes :
        /\ commits' = getRecentCommits(outcome)
        /\ listAnswers' = Append(listAnswers, Answer(outcome, commits'))
        /\ IF NoCommits(commits')
           THEN /\ response' = NoCommitsFound
                /\ pc' = "done"
                /\ UNCHANGED genCalls
           ELSE IF GenerateHasNoInput(commits')
           THEN /\ response' = GenerateFailed
                /\ pc' = "done"
                /\ UNCHANGED genCalls
           ELSE IF GenerateThrows(commits')
           THEN /\ response' = HandlerCaught
                /\ pc' = "done"
                /\ UNCHANGED genCalls
           ELSE /\ genCalls' = Append(genCalls, 0)
                /\ pc' = "awaitRecentGen"
                /\ UNCHANGED response
    /\ UNCHANGED <<req, unit, view, history, repoInfo, fetchVars, batches, loopVars, changelog,
                   store, listCalls, insertCalls, delays>>

(***************************************************************************)
(* Recent mode: generateChangelog returns; the handler answers 500 on      *)
(* null and otherwise calls saveChangelog, which returns the mock entry    *)
(* in a dry run and issues the insert otherwise.                           *)
(***************************************************************************)
RecentVersion == req.version

RecentGenReturns ==
    /\ pc = "awaitRecentGen"
    /\ \E resp \in GenResponses :
        /\ changelog' = ParsedChangelog(resp)
        /\ IF changelog' = Null
           THEN /\ response' = GenerateFailed
                /\ pc' = "done"
                /\ UNCHANGED insertCalls
           ELSE IF IsDryRun(req.dryRun)
           THEN /\ response' = RecentSuccess(DryRunEntry(
                        EntryToInsert(changelog', RecentVersion, Null, ProvenanceOfRequest)))
                /\ pc' = "done"
                /\ UNCHANGED insertCalls
           ELSE /\ insertCalls' = Append(insertCalls, 0)
                /\ pc' = "awaitRecentInsert"
                /\ UNCHANGED response
    /\ UNCHANGED <<req, unit, view, history, repoInfo, commits, fetchVars, batches, loopVars,
                   store, listCalls, listAnswers, genCalls, delays>>

(***************************************************************************)
(* Recent mode: the insert returns; the handler answers 500 when           *)
(* saveChangelog returned null and 200 with the entry otherwise.           *)
(***************************************************************************)
RecentInsertReturns ==
    /\ pc = "awaitRecentInsert"
    /\ \E outcome \in InsertOutcomesFor(
                        EntryToInsert(changelog, RecentVersion, Null, ProvenanceOfRequest)) :
        LET row == EntryToInsert(changelog, RecentVersion, Null, ProvenanceOfRequest)
            savedEntry == SavedEntry(row, outcome)
        IN  /\ store' = StoreAfter(row, outcome)
            /\ response' = IF savedEntry = Null
                           THEN SaveFailed
                           ELSE RecentSuccess(savedEntry)
            /\ pc' = "done"
    /\ UNCHANGED <<req, unit, view, history, repoInfo, commits, fetchVars, batches, loopVars,
                   changelog, logVars>>

(***************************************************************************)
(* Comprehensive mode: getAllCommitsInBatches returns bs to the handler,   *)
(* which answers 404 on an empty list and otherwise enters                 *)
(* processAllBatches.                                                      *)
(***************************************************************************)
HandlerReceivesBatches(bs) ==
    /\ batches' = bs
    /\ IF NoCommits(bs)
       THEN /\ response' = NoCommitsFound
            /\ pc' = "done"
            /\ UNCHANGED loopVars
       ELSE /\ i' = 0
            /\ results' = <<>>
            /\ bpc' = [k \in 1..Len(bs) |-> "pending"]
            /\ batchChangelog' = [k \in 1..Len(bs) |-> Null]
            /\ result' = [k \in 1..Len(bs) |-> Null]
            /\ pc' = "batchLoop"
            /\ UNCHANGED response

(***************************************************************************)
(* getAllCommitsInBatches: the test of the while loop; either the next     *)
(* page is requested or the batches are returned.                          *)
(***************************************************************************)
PerPage == Min(req.batchSize, ProviderCeiling)

SweepContinuesRegardless == hasMoreCommits

SweepContinues == hasMoreCommits /\ Len(allBatches) < req.maxEntries

SweepLoop ==
    /\ pc = "sweepLoop"
    /\ IF SweepContinues
       THEN /\ listCalls' = Append(listCalls, [per_page |-> PerPage, page |-> page])
            /\ pc' = "awaitPage"
            /\ UNCHANGED <<batches, loopVars, response>>
       ELSE /\ HandlerReceivesBatches(allBatches)
            /\ UNCHANGED listCalls
    /\ UNCHANGED <<req, unit, view, history, repoInfo, commits, fetchVars, changelog, store,
                   listAnswers, genCalls, insertCalls, delays>>

(***************************************************************************)
(* getAllCommitsInBatches: a page request returns.  A throw is caught and  *)
(* an empty list returned; an empty page ends the sweep; any other page    *)
(* becomes a batch, and the sweep ends on a short page or at maxEntries.   *)
(***************************************************************************)
BatchNumberedAfterPageAdvance(formattedCommits, pg) ==
    [commits |-> formattedCommits,
     batchNumber |-> pg + 1,
     fromDate |-> formattedCommits[Len(formattedCommits)].date,
     toDate |-> formattedCommits[1].date]

CurrentBatch(formattedCommits, pg) ==
    [commits |-> formattedCommits,
     batchNumber |-> pg,
     fromDate |-> formattedCommits[Len(formattedCommits)].date,
     toDate |-> formattedCommits[1].date]

SweepCaught == <<>>

PageIsShortOrFull(commitsData) == Len(commitsData) <= PerPage

PageNeverShort(commitsData) == FALSE

PageIsShort(commitsData) == Len(commitsData) < PerPage

ReachedMaxEntries(bs) == Len(bs) >= req.maxEntries

PageReturns ==
    /\ pc = "awaitPage"
    /\ \E outcome \in ListOutcomes :
        LET commitsData == IF outcome = "ok" THEN ListCommits(PerPage, page) ELSE <<>>
        IN  /\ listAnswers' = Append(listAnswers, Answer(outcome, commitsData))
            /\ IF outcome = "throw"
               THEN /\ HandlerReceivesBatches(SweepCaught)
                    /\ UNCHANGED fetchVars
               ELSE IF Len(commitsData) = 0
               THEN /\ hasMoreCommits' = FALSE
                    /\ HandlerReceivesBatches(allBatches)
                    /\ UNCHANGED <<page, allBatches, totalCommits>>
               ELSE /\ totalCommits' = totalCommits + Len(commitsData)
                    /\ allBatches' = Append(allBatches, CurrentBatch(MapFormat(commitsData), page))
                    /\ page' = page + 1
                    /\ hasMoreCommits' = IF PageIsShort(commitsData) THEN FALSE ELSE hasMoreCommits
                    /\ IF ReachedMaxEntries(allBatches')
                       THEN HandlerReceivesBatches(allBatches')
                       ELSE /\ pc' = "sweepLoop"
                            /\ UNCHANGED <<batches, loopVars, response>>
    /\ UNCHANGED <<req, unit, view, history, repoInfo, commits, changelog, store, listCalls,
                   genCalls, insertCalls, delays>>

(***************************************************************************)
(* processBatch: the version label and the date range of a batch.          *)
(***************************************************************************)
VersionPrefixUndefaulted == req.version

VersionPrefix == IF req.version # NoVersion THEN req.version ELSE <<repoInfo.name, "-history">>

BatchVersion(versionPrefix, batchNumber) ==
    IF versionPrefix # NoVersion
    THEN versionPrefix \o <<"-batch-", ToString(batchNumber)>>
    ELSE <<"batch-", ToString(batchNumber)>>

ToISOString(date) == [iso |-> date]

DateRange(batch) ==
    [from |-> IF batch.fromDate # NoDate THEN ToISOString(batch.fromDate) ELSE Null,
     to |-> IF batch.toDate # NoDate THEN ToISOString(batch.toDate) ELSE Null]

BatchRow(k, draft) ==
    EntryToInsert(draft, BatchVersion(VersionPrefix, k), DateRange(batches[k]),
                  ProvenanceOfRequest)

(***************************************************************************)
(* processAllBatches: the test of the for loop.  Either processBatch is    *)
(* called for batches[i] with batchNumber i + 1 (it throws on a date that  *)
(* does not parse, which ends the run in the handler's catch; it issues    *)
(* the generation request; or it returns null at once for a batch without  *)
(* commits), or the results are returned and the handler sends the report. *)
(***************************************************************************)
BatchNumber(idx) == idx + 1

LoopContinuesUntilFailure == i < Len(batches) /\ (i = 0 \/ result[i] # Null)

LoopContinues == i < Len(batches)

BatchLoop ==
    /\ pc = "batchLoop"
    /\ IF LoopContinues
       THEN LET k == BatchNumber(i)
            IN  IF ProcessBatchThrows(batches[i + 1])
                THEN /\ bpc' = [bpc EXCEPT ![k] = "threw"]
                     /\ response' = HandlerCaught
                     /\ pc' = "done"
                     /\ UNCHANGED genCalls
                ELSE /\ IF GenerateHasNoInput(batches[i + 1].commits)
                        THEN /\ bpc' = [bpc EXCEPT ![k] = "done"]
                             /\ UNCHANGED genCalls
                        ELSE /\ bpc' = [bpc EXCEPT ![k] = "gen"]
                             /\ genCalls' = Append(genCalls, k)
                     /\ pc' = "awaitBatch"
                     /\ UNCHANGED response
       ELSE /\ response' = ComprehensiveSuccess(results)
            /\ pc' = "done"
            /\ UNCHANGED <<bpc, genCalls>>
    /\ UNCHANGED <<req, unit, view, history, repoInfo, commits, fetchVars, batches, i, results,
                   changelog, batchChangelog, result, store, listCalls, listAnswers,
                   insertCalls, delays>>

(***************************************************************************)
(* processBatch k: generateChangelog returns.  On null the batch returns   *)
(* null; otherwise saveChangelog is called, which returns the mock entry   *)
(* in a dry run and issues the insert otherwise.                           *)
(***************************************************************************)
BatchGenReturns(k) ==
    /\ bpc[k] = "gen"
    /\ \E resp \in GenResponses :
        /\ batchChangelog' = [batchChangelog EXCEPT ![k] = ParsedChangelog(resp)]
        /\ IF batchChangelog'[k] = Null
           THEN /\ bpc' = [bpc EXCEPT ![k] = "done"]
                /\ UNCHANGED <<result, insertCalls>>
           ELSE IF IsDryRun(req.dryRun)
           THEN /\ bpc' = [bpc EXCEPT ![k] = "done"]
                /\ result' = [result EXCEPT ![k] = DryRunEntry(BatchRow(k, batchChangelog'[k]))]
                /\ UNCHANGED insertCalls
           ELSE /\ bpc' = [bpc EXCEPT ![k] = "insert"]
                /\ insertCalls' = Append(insertCalls, k)
                /\ UNCHANGED result
    /\ UNCHANGED <<req, unit, view, history, pc, repoInfo, commits, fetchVars, batches, i, results,
                   changelog, store, response, listCalls, listAnswers, genCalls, delays>>

(***************************************************************************)
(* processBatch k: the insert returns; the batch returns the saved entry,  *)
(* or null when saveChangelog returned null.                               *)
(***************************************************************************)
BatchInsertReturns(k) ==
    /\ bpc[k] = "insert"
    /\ \E outcome \in InsertOutcomesFor(BatchRow(k, batchChangelog[k])) :
        /\ store' = StoreAfter(BatchRow(k, batchChangelog[k]), outcome)
        /\ result' = [result EXCEPT ![k] = SavedEntry(BatchRow(k, batchChangelog[k]), outcome)]
        /\ bpc' = [bpc EXCEPT ![k] = "done"]
    /\ UNCHANGED <<req, unit, view, history, pc, repoInfo, commits, fetchVars, batches, i, results,
                   changelog, batchChangelog, response, logVars>>

(***************************************************************************)
(* processAllBatches: the awaited processBatch has returned; its result    *)
(* is pushed unless null, and the pacing delay is started unless this was  *)
(* the last batch.                                                         *)
(***************************************************************************)
BatchNotAwaited(k) == TRUE

BatchSettled(k) == bpc[k] = "done"

IsLastBatchOrFailed(idx) == ~ (idx < Len(batches) - 1) \/ result[BatchNumber(idx)] = Null

IsLastBatch(idx) == ~ (idx < Len(batches) - 1)

BatchReturns ==
    /\ pc = "awaitBatch"
    /\ BatchSettled(BatchNumber(i))
    /\ results' = IF result[BatchNumber(i)] # Null
                  THEN Append(results, result[BatchNumber(i)])
                  ELSE results
    /\ IF IsLastBatch(i)
       THEN /\ i' = i + 1
            /\ pc' = "batchLoop"
            /\ UNCHANGED delays
       ELSE /\ delays' = Append(delays, [after |-> BatchNumber(i), ms |-> PacingDelay])
            /\ pc' = "delay"
            /\ UNCHANGED i
    /\ UNCHANGED <<req, unit, view, history, repoInfo, commits, fetchVars, batches, bpc, changelog,
                   batchChangelog, result, store, response, listCalls, listAnswers,
                   genCalls, insertCalls>>

(***************************************************************************)
(* processAllBatches: the pacing delay has elapsed.                        *)
(***************************************************************************)
DelayElapsed ==
    /\ pc = "delay"
    /\ i' = i + 1
    /\ pc' = "batchLoop"
    /\ UNCHANGED <<req, unit, view, history, repoInfo, commits, fetchVars, batches, results, bpc,
                   changelog, batchChangelog, result, store, response, logVars>>

Next ==
    \/ HandleRequest
    \/ RepoInfoReturns
    \/ RecentCommitsReturn
    \/ RecentGenReturns
    \/ RecentInsertReturns
    \/ SweepLoop
    \/ PageReturns
    \/ BatchLoop
    \/ \E k \in DOMAIN bpc : BatchGenReturns(k)
    \/ \E k \in DOMAIN bpc : BatchInsertReturns(k)
    \/ BatchReturns
    \/ DelayElapsed

Spec == Init /\ [][Next]_vars

(***************************************************************************)
(* Direct calls of the exported functions generateChangelog and            *)
(* saveChangelog, with any arguments a caller may pass: a commit list      *)
(* that may be empty; a changelog whose fields may be absent or empty, a   *)
(* version, a date range, the dry-run flag and the repository.  The same   *)
(* call may be repeated up to MaxUnitCalls times.                          *)
(***************************************************************************)
MaxUnitCalls == 2

FieldValues == {Missing, "", "x"}

UnitChangelogs ==
    [title : FieldValues, description : FieldValues,
     category : {Missing, "", "Bug Fix", "Refactor"}]

UnitDateRanges == {Null, [from |-> Null, to |-> Null], [from |-> [iso |-> 1], to |-> [iso |-> 2]]}

UnitCalls ==
    [fn : {"generateChangelog"}, commits : {<<>>, <<[sha |-> 1, date |-> 1]>>},
     answers : {<<>>}, returned : {<<>>}]
    \cup
    [fn : {"saveChangelog"}, changelog : UnitChangelogs, version : Versions,
     dateRange : UnitDateRanges, dryRun : BOOLEAN,
     repoInfo : {Null, [owner |-> "acme", name |-> "diffy"]}, returned : {<<>>}]

DefaultRequest ==
    [mode |-> "recent", commitCount |-> DefaultCommitCount, batchSize |-> DefaultBatchSize,
     maxEntries |-> DefaultMaxEntries, version |-> NoVersion, dryRun |-> FALSE,
     repoOwner |-> "acme", repoName |-> "diffy", githubToken |-> "tok"]

UnitInit ==
    /\ unit \in UnitCalls
    /\ req = DefaultRequest
    /\ history = <<>>
    /\ pc = "unit"
    /\ repoInfo = Null
    /\ commits = <<>>
    /\ page = 1
    /\ allBatches = <<>>
    /\ hasMoreCommits = TRUE
    /\ totalCommits = 0
    /\ batches = <<>>
    /\ i = 0
    /\ results = <<>>
    /\ bpc = <<>>
    /\ changelog = Null
    /\ batchChangelog = <<>>
    /\ result = <<>>
    /\ store = <<>>
    /\ response = NoResponse
    /\ listCalls = <<>>
    /\ listAnswers = <<>>
    /\ genCalls = <<>>
    /\ insertCalls = <<>>
    /\ delays = <<>>
    /\ view = Null

(***************************************************************************)
(* generateChangelog(openai, commits): null at once for an empty list,     *)
(* otherwise the draft made of what the generation service answers.        *)
(***************************************************************************)
UnitGenerateChangelog ==
    /\ pc = "unit"
    /\ unit.fn = "generateChangelog"
    /\ Len(unit.returned) < MaxUnitCalls
    /\ IF GenerateHasNoInput(unit.commits)
       THEN /\ unit' = [unit EXCEPT !.returned = Append(@, Null)]
            /\ UNCHANGED genCalls
       ELSE \E resp \in GenResponses :
            /\ unit' = [unit EXCEPT !.answers = Append(@, resp),
                                    !.returned = Append(@, ParsedChangelog(resp))]
            /\ genCalls' = Append(genCalls, 0)
    /\ UNCHANGED <<req, view, history, pc, repoInfo, commits, fetchVars, batches, loopVars,
                   changelog, store, response, listCalls, listAnswers, insertCalls, delays>>

(***************************************************************************)
(* saveChangelog(supabase, changelog, version, dateRange, dryRun,          *)
(* repoInfo): the mock entry in a dry run, otherwise the inserted row, or  *)
(* null when the insert fails.                                             *)
(***************************************************************************)
UnitRow == EntryToInsert(unit.changelog, unit.version, unit.dateRange, unit.repoInfo)

UnitSaveChangelog ==
    /\ pc = "unit"
    /\ unit.fn = "saveChangelog"
    /\ Len(unit.returned) < MaxUnitCalls
    /\ IF IsDryRun(unit.dryRun)
       THEN /\ unit' = [unit EXCEPT !.returned = Append(@, DryRunEntry(UnitRow))]
            /\ UNCHANGED <<store, insertCalls>>
       ELSE \E outcome \in InsertOutcomesFor(UnitRow) :
            /\ unit' = [unit EXCEPT !.returned = Append(@, SavedEntry(UnitRow, outcome))]
            /\ store' = StoreAfter(UnitRow, outcome)
            /\ insertCalls' = Append(insertCalls, 0)
    /\ UNCHANGED <<req, view, history, pc, repoInfo, commits, fetchVars, batches, loopVars,
                   changelog, response, listCalls, listAnswers, genCalls, delays>>

NextUnit == UnitGenerateChangelog \/ UnitSaveChangelog

SpecUnit == UnitInit /\ [][NextUnit]_vars

(***************************************************************************)
(* getAllCommitsInBatches on its own, from the handler's call of it to its *)
(* return: the while loop takes its next step whenever it can, and the     *)
(* provider answers every request (with a page or an error).               *)
(***************************************************************************)
SweepInit ==
    /\ req \in {r \in Requests : r.mode = "comprehensive"}
    /\ history \in {History(n) : n \in 0..MaxCommits} \cup IrregularHistories
    /\ pc = "sweepLoop"
    /\ repoInfo = [name |-> req.repoName]
    /\ commits = <<>>
    /\ page = 1
    /\ allBatches = <<>>
    /\ hasMoreCommits = TRUE
    /\ totalCommits = 0
    /\ batches = <<>>
    /\ i = 0
    /\ results = <<>>
    /\ bpc = <<>>
    /\ changelog = Null
    /\ batchChangelog = <<>>
    /\ result = <<>>
    /\ store = <<>>
    /\ response = NoResponse
    /\ listCalls = <<>>
    /\ listAnswers = <<>>
    /\ genCalls = <<>>
    /\ insertCalls = <<>>
    /\ delays = <<>>
    /\ unit = Null
    /\ view = Null

NextSweep == SweepLoop \/ PageReturns

SpecSweep == SweepInit /\ [][NextSweep]_vars /\ WF_vars(NextSweep)

(***************************************************************************)
(* The pipeline and the direct calls together: a behaviour is either a run *)
(* of the handler or a series of direct calls.                             *)
(***************************************************************************)
InitAll == Init \/ UnitInit

NextAll == Next \/ NextUnit

SpecAll == InitAll /\ [][NextAll]_vars

(***************************************************************************)
(* PublicChangelog, the public changelog page.  Its state is the filters   *)
(* (activeFilter, selectedOwner, selectedRepo; "" stands for null), the    *)
(* lists that fill the selectors, the entries shown, and the requests to   *)
(* the store that have not been answered yet.  A request keeps the filter  *)
(* values of the render that issued it.  The effects run after a render    *)
(* whose dependencies changed: fetchRepoNames on selectedOwner,            *)
(* fetchChangelogs on repoOwners, selectedOwner, selectedRepo, repoNames   *)
(* and activeFilter.  No effect cancels or ignores an earlier request.     *)
(* The table is not written to while the page is open.                     *)
(***************************************************************************)
MaxFilterChanges == 1

PublicRows ==
    {[id |-> 1, repo_owner |-> "acme", repo_name |-> "diffy", category |-> "Bug Fix"],
     [id |-> 2, repo_owner |-> "acme", repo_name |-> "diffy", category |-> "Enhancement"],
     [id |-> 3, repo_owner |-> "acme", repo_name |-> "api", category |-> "Bug Fix"],
     [id |-> 4, repo_owner |-> "globex", repo_name |-> "site", category |-> "Bug Fix"]}

UniqueOwners == {row.repo_owner : row \in PublicRows}

FirstOwner == "acme"

AllCategories == {row.category : row \in PublicRows}

NamesResult(owner) == {row.repo_name : row \in {x \in PublicRows : x.repo_owner = owner}}

QueryResult(category, owner, repo) ==
    {row.id : row \in
        {x \in PublicRows :
            /\ category # "" => x.category = category
            /\ owner # "" => /\ x.repo_owner = owner
                             /\ repo # "" => x.repo_name = repo}}

QueryOutcomes == {"ok", "error"}

Unmounted ==
    [activeFilter |-> "", selectedOwner |-> "", selectedRepo |-> "", repoOwners |-> {},
     repoNames |-> {}, uniqueCategories |-> {}, changelogs |-> {}, loading |-> TRUE,
     error |-> FALSE, inflight |-> {}, sent |-> 0, changes |-> 0]

Issue(v, kind) ==
    [v EXCEPT !.inflight = @ \cup {[id |-> v.sent + 1, kind |-> kind,
                                    category |-> v.activeFilter, owner |-> v.selectedOwner,
                                    repo |-> v.selectedRepo]},
              !.sent = @ + 1]

Answered(v, request) == [v EXCEPT !.inflight = @ \ {request}]

fetchChangelogs(v) == [Issue(v, "changelogs") EXCEPT !.loading = TRUE, !.error = FALSE]

fetchRepoNames(v) ==
    IF v.selectedOwner = ""
    THEN fetchChangelogs([fetchChangelogs(v) EXCEPT !.repoNames = {}, !.selectedRepo = ""])
    ELSE fetchChangelogs(Issue(v, "names"))

pipelineVars ==
    <<req, history, pc, repoInfo, commits, fetchVars, batches, loopVars, changelog, store,
      response, logVars, unit>>

PublicInit ==
    /\ view = fetchRepoNames(Issue(Unmounted, "owners"))
    /\ unit = Null
    /\ req = DefaultRequest
    /\ history = <<>>
    /\ pc = "page"
    /\ repoInfo = Null
    /\ commits = <<>>
    /\ page = 1
    /\ allBatches = <<>>
    /\ hasMoreCommits = TRUE
    /\ totalCommits = 0
    /\ batches = <<>>
    /\ i = 0
    /\ results = <<>>
    /\ bpc = <<>>
    /\ changelog = Null
    /\ batchChangelog = <<>>
    /\ result = <<>>
    /\ store = <<>>
    /\ response = NoResponse
    /\ listCalls = <<>>
    /\ listAnswers = <<>>
    /\ genCalls = <<>>
    /\ insertCalls = <<>>
    /\ delays = <<>>

(***************************************************************************)
(* fetchData: the owners arrive (the first one is selected, which runs     *)
(* both effects, and the categories are requested), then the categories.   *)
(***************************************************************************)
OwnersReturn ==
    /\ pc = "page"
    /\ \E request \in view.inflight : \E outcome \in QueryOutcomes :
        /\ request.kind = "owners"
        /\ view' = IF outcome = "ok"
                   THEN fetchRepoNames(Issue([Answered(view, request) EXCEPT
                                                 !.repoOwners = UniqueOwners,
                                                 !.selectedOwner = FirstOwner],
                                             "categories"))
                   ELSE [Answered(view, request) EXCEPT !.error = TRUE]
    /\ UNCHANGED pipelineVars

CategoriesReturn ==
    /\ pc = "page"
    /\ \E request \in view.inflight : \E outcome \in QueryOutcomes :
        /\ request.kind = "categories"
        /\ view' = IF outcome = "ok"
                   THEN [Answered(view, request) EXCEPT !.uniqueCategories = AllCategories]
                   ELSE [Answered(view, request) EXCEPT !.error = TRUE]
    /\ UNCHANGED pipelineVars

(***************************************************************************)
(* fetchRepoNames: the repository names of an owner arrive; the repository *)
(* selection is reset, and the new list runs fetchChangelogs again.        *)
(***************************************************************************)
RepoNamesReturn ==
    /\ pc = "page"
    /\ \E request \in view.inflight : \E outcome \in QueryOutcomes :
        /\ request.kind = "names"
        /\ view' = IF outcome = "ok"
                   THEN fetchChangelogs([Answered(view, request) EXCEPT
                                            !.repoNames = NamesResult(request.owner),
                                            !.selectedRepo = ""])
                   ELSE Answered(view, request)
    /\ UNCHANGED pipelineVars

(***************************************************************************)
(* fetchChangelogs: the entries of a request arrive and are shown; on an   *)
(* error the list is cleared and the error shown.                          *)
(***************************************************************************)
ChangelogsReturn ==
    /\ pc = "page"
    /\ \E request \in view.inflight : \E outcome \in QueryOutcomes :
        /\ request.kind = "changelogs"
        /\ view' = IF outcome = "ok"
                   THEN [Answered(view, request) EXCEPT
                            !.changelogs = QueryResult(request.category, request.owner,
                                                       request.repo),
                            !.loading = FALSE]
                   ELSE [Answered(view, request) EXCEPT
                            !.changelogs = {}, !.error = TRUE, !.loading = FALSE]
    /\ UNCHANGED pipelineVars

(***************************************************************************)
(* The visitor picks an owner, a repository or a category.                 *)
(***************************************************************************)
OwnerDropdownDisabled == Cardinality(view.repoOwners) <= 1 /\ view.selectedOwner # ""

SelectOwner ==
    /\ pc = "page"
    /\ view.changes < MaxFilterChanges
    /\ ~ OwnerDropdownDisabled
    /\ \E owner \in view.repoOwners \cup (IF Cardinality(view.repoOwners) > 1 THEN {""} ELSE {}) :
        /\ owner # view.selectedOwner
        /\ view' = fetchRepoNames([view EXCEPT !.selectedOwner = owner, !.changes = @ + 1])
    /\ UNCHANGED pipelineVars

SelectRepo ==
    /\ pc = "page"
    /\ view.changes < MaxFilterChanges
    /\ view.selectedOwner # "" /\ view.repoNames # {}
    /\ \E repo \in view.repoNames \cup {""} :
        /\ repo # view.selectedRepo
        /\ view' = fetchChangelogs([view EXCEPT !.selectedRepo = repo, !.changes = @ + 1])
    /\ UNCHANGED pipelineVars

SelectCategory ==
    /\ pc = "page"
    /\ view.changes < MaxFilterChanges
    /\ \E category \in view.uniqueCategories \cup {""} :
        /\ category # view.activeFilter
        /\ view' = fetchChangelogs([view EXCEPT !.activeFilter = category, !.changes = @ + 1])
    /\ UNCHANGED pipelineVars

NextPublic ==
    \/ OwnersReturn
    \/ CategoriesReturn
    \/ RepoNamesReturn
    \/ ChangelogsReturn
    \/ SelectOwner
    \/ SelectRepo
    \/ SelectCategory

SpecPublic == PublicInit /\ [][NextPublic]_vars

(***************************************************************************)
(* Vocabulary of the properties.                                           *)
(***************************************************************************)
Comprehensive == req.mode # "recent"

InBatchLoop == pc \in {"batchLoop", "awaitBatch", "delay"}

ReportSent == pc = "done" /\ response.success /\ response.mode = "comprehensive"

SweepReturned == Comprehensive /\ (InBatchLoop \/ (pc = "done" /\ repoInfo # Null))

NoListFailure == \A j \in DOMAIN listAnswers : ~ listAnswers[j].threw

InFlight == {k \in DOMAIN bpc : bpc[k] \in {"gen", "insert"}}

Succeeded == {k \in DOMAIN bpc : batchChangelog[k] # Null /\ result[k] # Null}

GenerationFailedFor(k) == bpc[k] = "done" /\ batchChangelog[k] = Null

PersistenceFailedFor(k) == bpc[k] = "done" /\ batchChangelog[k] # Null /\ result[k] = Null

Upto(n) == [k \in 1..n |-> k]

RECURSIVE EntriesOf(_)
EntriesOf(n) ==
    IF n = 0 THEN <<>>
    ELSE IF n \in Succeeded THEN Append(EntriesOf(n - 1), result[n]) ELSE EntriesOf(n - 1)

Sizes(bs) == [k \in DOMAIN bs |-> Len(bs[k].commits)]

C2_ReportCounts ==
    ReportSent =>
        /\ response.batchCount = Len(allBatches)
        /\ response.batchCount = Len(batches)
        /\ response.successfulBatches = Cardinality(Succeeded)
        /\ response.entries = EntriesOf(Len(batches))
        /\ (Len(history) = 25 /\ req.batchSize = 10 /\ req.maxEntries = 10) =>
            /\ response.batchCount = 3
            /\ Sizes(batches) = <<10, 10, 5>>
            /\ Succeeded = {1, 2, 3} => Len(response.entries) = 3

C2_Witness ==
    /\ ReportSent
    /\ Len(history) = 25 /\ req.batchSize = 10 /\ req.maxEntries = 10
    /\ GenerationFailedFor(2)
    /\ response.batchCount = 3
    /\ response.successfulBatches = 2
    /\ response.entries = <<result[1], result[3]>>

(***************************************************************************)
(* C3: at most one batch is in flight, and a batch is started only when    *)
(* every batch before it has finished its generation and persistence       *)
(* steps.                                                                  *)
(***************************************************************************)
C3_OneBatchAtATime ==
    /\ Cardinality(InFlight) <= 1
    /\ \A k \in DOMAIN bpc :
        bpc[k] # "pending" => \A j \in 1..(k - 1) : bpc[j] = "done"

C3_Witness ==
    /\ Len(batches) >= 3
    /\ bpc[1] = "done" /\ result[1] # Null
    /\ bpc[2] = "insert"
    /\ bpc[3] = "pending"

(***************************************************************************)
(* C4: the batch numbers given at fetch time are 1, 2, ..., n without      *)
(* gaps, and the number a batch is processed and labelled under is the     *)
(* number it was given at fetch time, also after earlier batches failed.   *)
(***************************************************************************)
C4_ContiguousBatchNumbers ==
    /\ \A idx \in DOMAIN allBatches : allBatches[idx].batchNumber = idx
    /\ \A idx \in DOMAIN batches : batches[idx].batchNumber = idx
    /\ pc \in {"awaitBatch", "delay"} => BatchNumber(i) = batches[i + 1].batchNumber
    /\ \A k \in DOMAIN bpc :
        result[k] # Null =>
            result[k].version = BatchVersion(VersionPrefix, batches[k].batchNumber)

C4_Witness ==
    /\ pc = "awaitBatch"
    /\ i = 2
    /\ GenerationFailedFor(1)
    /\ PersistenceFailedFor(2)
    /\ result[3] # Null
    /\ batches[3].batchNumber = 3

(***************************************************************************)
(* C5: when no page request fails and maxEntries does not limit the        *)
(* sweep, getAllCommitsInBatches returns ceil(N / perPage) batches whose   *)
(* commit counts sum to N, N being the length of the history.              *)
(***************************************************************************)
C5_BatchCountIsCeiling ==
    (/\ SweepReturned
     /\ NoListFailure
     /\ PerPage \in 1..ProviderCeiling
     /\ req.maxEntries >= CeilDiv(Len(history), PerPage)) =>
        /\ Len(batches) = CeilDiv(Len(history), PerPage)
        /\ SumLens(batches) = Len(history)
        /\ totalCommits = Len(history)

C5_Witness ==
    /\ SweepReturned
    /\ NoListFailure
    /\ Len(history) = 20 /\ req.batchSize = 10 /\ req.maxEntries = 10
    /\ Len(batches) = 2
    /\ Len(listCalls) = 3

(***************************************************************************)
(* C6: the sweep never builds more than maxEntries batches, requests no    *)
(* page once maxEntries batches exist, and requests no page after a page   *)
(* that came back with fewer than perPage commits.                         *)
(***************************************************************************)
C6_SweepStops ==
    Comprehensive =>
        /\ Len(allBatches) <= req.maxEntries
        /\ Len(batches) <= req.maxEntries
        /\ \A j \in DOMAIN listCalls : listCalls[j].page <= req.maxEntries
        /\ \A j \in DOMAIN listAnswers :
            (~ listAnswers[j].threw /\ listAnswers[j].count < listCalls[j].per_page) =>
                Len(listCalls) = j

C6_Witness ==
    /\ SweepReturned
    /\ Len(batches) = 3
    /\ req.maxEntries > 3
    /\ Len(batches[3].commits) \in 1..(PerPage - 1)
    /\ Len(listCalls) = 3
(***************************************************************************)
(* C7: when a page request fails after some pages were fetched, the        *)
(* batches built from those pages are what the caller receives: they are   *)
(* not discarded, and the outcome is not that of an empty history.         *)
(***************************************************************************)
ListFailed == \E j \in DOMAIN listAnswers : listAnswers[j].threw

SweepFailedMidway == Comprehensive /\ ListFailed /\ allBatches # <<>>

C7_PartialBatchesKept ==
    SweepFailedMidway =>
        /\ batches = allBatches
        /\ response # NoCommitsFound

(***************************************************************************)
(* C8: a run in which a list-commits call failed never ends with the       *)
(* response a reachable repository with zero commits gets.                 *)
(***************************************************************************)
C8_FetchFailureDistinct ==
    (pc = "done" /\ ListFailed) => response # NoCommitsFound

(***************************************************************************)
(* C9: in recent mode, when the repository has zero commits the run ends   *)
(* with the no-commits response; the generation service and the store are  *)
(* never called and nothing is persisted.                                  *)
(***************************************************************************)
RecentRun == req.mode = "recent"

C9_EmptyHistoryRecent ==
    (RecentRun /\ Len(history) = 0) =>
        /\ genCalls = <<>>
        /\ insertCalls = <<>>
        /\ store = <<>>
        /\ (pc = "done" /\ repoInfo # Null) => response = NoCommitsFound

C9_Witness ==
    /\ RecentRun
    /\ Len(history) = 0
    /\ req.commitCount = 5
    /\ pc = "done"
    /\ listAnswers = <<[threw |-> FALSE, count |-> 0]>>
    /\ response = NoCommitsFound

(***************************************************************************)
(* C10: recent mode issues at most one generation request and at most one  *)
(* insert and ends on the first failure.  When generation fails the store  *)
(* is never called and the run fails; when persistence fails the run       *)
(* fails; the run succeeds only when both succeeded, and then returns      *)
(* exactly one entry, which is the one row written (no row in a dry run).  *)
(***************************************************************************)
C10_RecentAbortsOnFirstFailure ==
    RecentRun =>
        /\ Len(genCalls) <= 1
        /\ Len(insertCalls) <= 1
        /\ Len(store) <= 1
        /\ (pc = "done" /\ genCalls # <<>> /\ changelog = Null) =>
            /\ insertCalls = <<>>
            /\ store = <<>>
            /\ response = GenerateFailed
        /\ (pc = "done" /\ insertCalls # <<>> /\ store = <<>>) => response = SaveFailed
        /\ (pc = "done" /\ ~ response.success) => (store = <<>> /\ response.entry = Null)
        /\ (pc = "done" /\ response.success) =>
            /\ genCalls = <<0>>
            /\ changelog # Null
            /\ response.entry # Null
            /\ ~ req.dryRun => (insertCalls = <<0>> /\ store = <<response.entry>>)
            /\ req.dryRun => (insertCalls = <<>> /\ store = <<>>)

C10_Witness ==
    /\ RecentRun
    /\ pc = "done"
    /\ response.success
    /\ ~ req.dryRun
    /\ store = <<response.entry>>
(***************************************************************************)
(* C11: generateChangelog returns null for every answer in which title,    *)
(* description or category is absent or empty; a draft it returns has      *)
(* three non-empty fields, each the one the answer carried.                *)
(***************************************************************************)
NonEmptyField(s) == s \notin {Missing, ""}

UnitGenerate == pc = "unit" /\ unit.fn = "generateChangelog"

UnitSave == pc = "unit" /\ unit.fn = "saveChangelog"

C11_IncompleteAnswerRejected ==
    UnitGenerate =>
        \A c \in DOMAIN unit.answers :
            LET a == unit.answers[c]
                r == unit.returned[c]
            IN  /\ (~ NonEmptyField(a.title) \/ ~ NonEmptyField(a.description)
                        \/ ~ NonEmptyField(a.category)) => r = Null
                /\ r # Null =>
                    /\ NonEmptyField(r.title) /\ r.title = a.title
                    /\ NonEmptyField(r.description) /\ r.description = a.description
                    /\ NonEmptyField(r.category) /\ r.category = a.category

C11_Witness ==
    /\ UnitGenerate
    /\ Len(unit.answers) = 2
    /\ unit.answers[1] = [kind |-> "json", title |-> "T", description |-> "D", category |-> ""]
    /\ unit.returned[1] = Null
    /\ unit.returned[2] # Null

(***************************************************************************)
(* C12: no draft and no persisted entry carries a category outside the     *)
(* closed set of categories.                                               *)
(***************************************************************************)
C12_CategoryInClosedSet ==
    /\ changelog # Null => changelog.category \in Categories
    /\ \A k \in DOMAIN batchChangelog :
        batchChangelog[k] # Null => batchChangelog[k].category \in Categories
    /\ \A e \in DOMAIN store : store[e].category \in Categories

(***************************************************************************)
(* C13: saveChangelog fails for a changelog whose title, description or    *)
(* category is absent or empty, in a dry run as in a live run, and writes  *)
(* nothing.                                                                *)
(***************************************************************************)
InvalidDraft(d) ==
    ~ NonEmptyField(d.title) \/ ~ NonEmptyField(d.description) \/ ~ NonEmptyField(d.category)

C13_InvalidDraftRejected ==
    (UnitSave /\ InvalidDraft(unit.changelog)) =>
        /\ \A c \in DOMAIN unit.returned : unit.returned[c] = Null
        /\ store = <<>>

(***************************************************************************)
(* C14: in a dry run no insert is issued and the store stays as it was,    *)
(* in recent mode and for every batch, while every batch whose generation  *)
(* succeeded still yields an entry in the report.                          *)
(***************************************************************************)
Generated == {k \in DOMAIN bpc : batchChangelog[k] # Null}

C14_DryRunWritesNothing ==
    (pc # "unit" /\ req.dryRun) =>
        /\ store = <<>>
        /\ insertCalls = <<>>
        /\ ReportSent =>
            /\ Len(response.entries) = Cardinality(Generated)
            /\ \A k \in Generated : result[k] # Null
        /\ (RecentRun /\ pc = "done" /\ changelog # Null) =>
            (response.success /\ response.entry # Null)

C14_Witness ==
    /\ req.dryRun
    /\ ReportSent
    /\ Len(batches) = 3
    /\ Len(response.entries) = 2
    /\ store = <<>>

(***************************************************************************)
(* C15 as stated: two dry-run calls of saveChangelog with the same         *)
(* arguments return entries with different ids and the same content.       *)
(***************************************************************************)
Content(e) ==
    [title |-> e.title, description |-> e.description, category |-> e.category,
     version |-> e.version, repo_owner |-> e.repo_owner, repo_name |-> e.repo_name,
     metadata |-> e.metadata]

TwoDryRunCalls == UnitSave /\ unit.dryRun /\ Len(unit.returned) = 2

C15_DryRunIdsDiffer ==
    TwoDryRunCalls =>
        /\ unit.returned[1].id # unit.returned[2].id
        /\ Content(unit.returned[1]) = Content(unit.returned[2])

(***************************************************************************)
(* C15 amended: two dry-run calls of saveChangelog with the same           *)
(* arguments return entries with the same id, the sentinel "dry-run-id",   *)
(* and the same content.                                                   *)
(***************************************************************************)
C15_DryRunSentinelId ==
    TwoDryRunCalls =>
        /\ unit.returned[1].id = "dry-run-id"
        /\ unit.returned[2].id = "dry-run-id"
        /\ Content(unit.returned[1]) = Content(unit.returned[2])
        /\ Content(unit.returned[1]) = UnitRow

C15_Witness ==
    /\ TwoDryRunCalls
    /\ unit.changelog = [title |-> "x", description |-> "x", category |-> "Bug Fix"]
    /\ unit.returned[1] = unit.returned[2]
    /\ unit.returned[1].id = "dry-run-id"

(***************************************************************************)
(* The date range of a batch.                                              *)
(***************************************************************************)
DatesPresent(batch) == {batch.commits[c].date : c \in 1..Len(batch.commits)} \ {NoDate}

Oldest(dates) == CHOOSE d \in dates : \A e \in dates : d <= e

Newest(dates) == CHOOSE d \in dates : \A e \in dates : e <= d

(***************************************************************************)
(* C16: every batch with at least one non-null commit date has             *)
(* fromDate <= toDate, and a batch whose commit dates are all null has     *)
(* both range fields unset, so that the entry persisted for it carries no  *)
(* date range at all.                                                      *)
(***************************************************************************)
C16_RangeOrderedOrAbsent ==
    /\ \A k \in 1..Len(allBatches) :
           LET b == allBatches[k]
           IN  /\ DatesPresent(b) # {} =>
                      b.fromDate # NoDate /\ b.toDate # NoDate /\ b.fromDate <= b.toDate
               /\ DatesPresent(b) = {} => b.fromDate = NoDate /\ b.toDate = NoDate
    /\ \A k \in 1..Len(result) :
           result[k] # Null /\ DatesPresent(batches[k]) = {} => result[k].metadata = Null

(***************************************************************************)
(* C17: for each batch, fromDate is the oldest and toDate the newest of    *)
(* the non-null commit dates of its page, wherever those commits stand in  *)
(* the page; commits without a date are skipped.                           *)
(***************************************************************************)
C17_RangeIsOldestToNewest ==
    \A k \in 1..Len(allBatches) :
        LET b == allBatches[k]
        IN  DatesPresent(b) # {} =>
                b.fromDate = Oldest(DatesPresent(b)) /\ b.toDate = Newest(DatesPresent(b))

(***************************************************************************)
(* The version label of the entry of batch k.                              *)
(***************************************************************************)
Labelled(k) == Comprehensive /\ k \in 1..Len(result) /\ result[k] # Null

BatchSuffix(k) == <<"-batch-", ToString(k)>>

(***************************************************************************)
(* C18: in comprehensive mode the entry of batch k carries the label       *)
(* {versionPrefix}-batch-{k} when the request supplied a version, and      *)
(* batch-{k} when the request supplied none.                               *)
(***************************************************************************)
C18_LabelBareWithoutPrefix ==
    \A k \in 1..Len(result) :
        Labelled(k) =>
            result[k].version = IF req.version # NoVersion
                                THEN req.version \o BatchSuffix(k)
                                ELSE <<"batch-", ToString(k)>>

(***************************************************************************)
(* C18, amended: in comprehensive mode the entry of batch k carries the    *)
(* label {version}-batch-{k} when the request supplied a version, and      *)
(* {repository name}-history-batch-{k} when it supplied none.              *)
(***************************************************************************)
C18_LabelDefaultsToHistoryPrefix ==
    \A k \in 1..Len(result) :
        Labelled(k) =>
            result[k].version = IF req.version # NoVersion
                                THEN req.version \o BatchSuffix(k)
                                ELSE <<repoInfo.name, "-history">> \o BatchSuffix(k)

C18_Witness ==
    /\ ReportSent
    /\ req.version = NoVersion
    /\ Labelled(2)
    /\ result[2].version = <<"diffy", "-history", "-batch-", "2">>
    /\ \E row \in 1..Len(store) : store[row].version = result[2].version

(***************************************************************************)
(* C19: a pacing delay follows every batch but the last, a failed batch as *)
(* well as a successful one.  The j-th delay is the fixed delay, begins    *)
(* when batch j has ended and ends before batch j + 1 starts; a run over   *)
(* n >= 1 batches has made exactly n - 1 delays when it reports, none of   *)
(* them after batch n.                                                     *)
(***************************************************************************)
C19_DelayBetweenBatches ==
    /\ \A j \in 1..Len(delays) :
           /\ delays[j] = [after |-> j, ms |-> PacingDelay]
           /\ j < Len(batches)
           /\ bpc[j] = "done"
    /\ \A k \in 2..Len(bpc) : bpc[k] # "pending" => Len(delays) >= k - 1 /\ i >= k - 1
    /\ pc = "delay" => Len(delays) = i + 1 /\ bpc[i + 2] = "pending"
    /\ ReportSent => Len(batches) >= 1 /\ Len(delays) = Len(batches) - 1

C19_Witness ==
    /\ ReportSent
    /\ Len(batches) = 3
    /\ Len(delays) = 2
    /\ result[1] = Null
    /\ result[2] # Null

(***************************************************************************)
(* C20: the numeric parameters of a request are bounded before they are    *)
(* used.  Every page of the sweep is requested with a size in 5..100, the  *)
(* sweep works with a limit in 1..50 (it requests at least one page and at *)
(* most 50), and the recent listing asks for at least one commit.          *)
(***************************************************************************)
C20_NumericParametersBounded ==
    /\ \A j \in 1..Len(listCalls) :
           IF Comprehensive
           THEN listCalls[j].per_page \in 5..100
           ELSE listCalls[j].per_page >= 1
    /\ SweepReturned => Len(listCalls) \in 1..50

(***************************************************************************)
(* The stage a failure response names in its message, and the stage that   *)
(* failed in the run.                                                      *)
(***************************************************************************)
StageNamed(resp) ==
    CASE resp.message = "Failed to fetch repository info" -> "fetch"
      [] resp.message = NoCommitsFound.message -> "fetch"
      [] resp.message = GenerateFailed.message -> "generate"
      [] resp.message = SaveFailed.message -> "persist"
      [] OTHER -> "none"

FailedBatches == {k \in DOMAIN bpc : GenerationFailedFor(k) \/ PersistenceFailedFor(k)}

BatchesInReport(resp) ==
    {k \in 1..resp.batchCount :
        \E e \in DOMAIN resp.entries : resp.entries[e].version = BatchVersion(VersionPrefix, k)}

(***************************************************************************)
(* C21: every failure shown to the user names the stage that failed        *)
(* (fetch, generate or persist), and the report of a comprehensive run     *)
(* in which batches failed tells which batches failed and at which stage.  *)
(***************************************************************************)
C21_FailureNamesStage ==
    /\ (pc = "done" /\ ~ response.success /\ response.status # 400) =>
           StageNamed(response) \in {"fetch", "generate", "persist"}
    /\ (ReportSent /\ FailedBatches # {}) =>
           /\ FailedBatches = (1..response.batchCount) \ BatchesInReport(response)
           /\ StageNamed(response) \in {"generate", "persist"}

(***************************************************************************)
(* Calls and rows of one run.                                              *)
(***************************************************************************)
NoDuplicates(seq) == \A a, b \in DOMAIN seq : a # b => seq[a] # seq[b]

Range(seq) == {seq[a] : a \in DOMAIN seq}

Persisted == {k \in DOMAIN result : result[k] # Null}

StoreOnlyGrows ==
    /\ Len(store') \in {Len(store), Len(store) + 1}
    /\ SubSeq(store', 1, Len(store)) = store

CallsAndRowsAtMostOnce ==
    /\ NoDuplicates(genCalls)
    /\ NoDuplicates(insertCalls)
    /\ NoDuplicates(store)
    /\ NoDuplicates([r \in DOMAIN store |-> store[r].id])
    /\ Comprehensive =>
           /\ Range(insertCalls) \subseteq Range(genCalls)
           /\ Range(genCalls) \subseteq DOMAIN batches
           /\ ~ req.dryRun => /\ Len(store) = Cardinality(Persisted)
                               /\ Range(store) = {result[k] : k \in Persisted}
    /\ ~ Comprehensive =>
           /\ Len(genCalls) <= 1
           /\ Len(insertCalls) <= 1
           /\ Len(store) <= 1
           /\ (pc = "done" /\ response.success /\ ~ req.dryRun) => store = <<response.entry>>

(***************************************************************************)
(* C22: nothing is retried.  Within one run each batch gets at most one    *)
(* generation call and at most one insert, one row is created for each     *)
(* batch that was generated and persisted (one in recent mode), and the    *)
(* store is only ever appended to: no row is changed or removed.           *)
(***************************************************************************)
C22_NothingRetried == [](CallsAndRowsAtMostOnce) /\ [][StoreOnlyGrows]_vars

C22_Witness ==
    /\ ReportSent
    /\ ~ req.dryRun
    /\ Len(batches) = 3
    /\ GenerationFailedFor(1)
    /\ genCalls = <<1, 2, 3>>
    /\ insertCalls = <<2, 3>>
    /\ store = <<result[2], result[3]>>

(***************************************************************************)
(* C23: a comprehensive run in which some or all batches failed (each      *)
(* returned, with or without an entry) ends in the success report, with    *)
(* successfulBatches <= batchCount, and with 0 successes and no entries    *)
(* when every batch failed; it is not answered with an error.              *)
(***************************************************************************)
AllBatchesReturned == batches # <<>> /\ \A k \in DOMAIN bpc : bpc[k] = "done"

C23_PartialFailureIsSuccess ==
    (Comprehensive /\ pc = "done" /\ AllBatchesReturned) =>
        /\ response.success
        /\ response.status = 200
        /\ response.mode = "comprehensive"
        /\ response.successfulBatches <= response.batchCount
        /\ response.successfulBatches = response.batchCount - Cardinality(FailedBatches)
        /\ FailedBatches = DOMAIN batches =>
               response.successfulBatches = 0 /\ response.entries = <<>>

C23_Witness ==
    /\ ReportSent
    /\ Len(batches) = 2
    /\ FailedBatches = {1, 2}
    /\ response.batchCount = 2
    /\ response.successfulBatches = 0
    /\ response.entries = <<>>

(***************************************************************************)
(* C26: in comprehensive mode, once the batches are fetched the run always *)
(* ends with the report: whatever happens while one batch is processed,    *)
(* an exception raised by processBatch included, stays within that batch,  *)
(* so that every batch is attempted and every row persisted for an         *)
(* earlier batch is among the reported entries.                            *)
(***************************************************************************)
C26_SweepAlwaysReports ==
    (Comprehensive /\ pc = "done" /\ batches # <<>>) =>
        /\ ReportSent
        /\ \A k \in DOMAIN bpc : bpc[k] = "done"
        /\ Range(store) \subseteq Range(response.entries)

(***************************************************************************)
(* C24: every list-commits request sent to the provider, in recent mode    *)
(* (commitCount) as in comprehensive mode (batchSize), asks for a page of  *)
(* at most ProviderCeiling commits.                                        *)
(***************************************************************************)
C24_PageSizeWithinCeiling ==
    \A j \in DOMAIN listCalls : listCalls[j].per_page <= ProviderCeiling

(***************************************************************************)
(* C25: the paged sweep never builds a batch without commits (an empty     *)
(* page ends the sweep first), and the generation service is never called  *)
(* with an empty commit list, in either mode: generateChangelog on zero    *)
(* commits returns null without issuing a request.                         *)
(***************************************************************************)
C25_NoEmptyBatchNoEmptyGeneration ==
    /\ \A k \in DOMAIN allBatches : Len(allBatches[k].commits) >= 1
    /\ \A k \in DOMAIN batches : Len(batches[k].commits) >= 1
    /\ \A k \in DOMAIN bpc :
           (bpc[k] \in {"gen", "insert"} \/ k \in Range(genCalls)) => Len(batches[k].commits) >= 1
    /\ (pc # "unit" /\ ~ Comprehensive /\ genCalls # <<>>) => Len(commits) >= 1
    /\ (pc = "unit" /\ unit.fn = "generateChangelog" /\ unit.commits = <<>>) =>
           /\ genCalls = <<>>
           /\ \A c \in DOMAIN unit.returned : unit.returned[c] = Null

C25_Witness ==
    /\ Comprehensive
    /\ InBatchLoop
    /\ Len(listAnswers) = 3
    /\ listAnswers[3] = [threw |-> FALSE, count |-> 0]
    /\ Len(batches) = 2
    /\ genCalls = <<1, 2>>

(***************************************************************************)
(* C27: the external calls of a run are ordered repository info, commits,  *)
(* generation, persistence.  No generation request is issued unless the    *)
(* repository info was fetched and the commit fetch returned at least one  *)
(* commit, and the store is called for a batch (or for the recent entry)   *)
(* only after its generation returned a draft with its three fields.       *)
(***************************************************************************)
ValidDraft(draft) ==
    /\ draft # Null
    /\ Truthy(draft.title) /\ Truthy(draft.description) /\ Truthy(draft.category)

CommitsWereReturned == \E j \in DOMAIN listAnswers : ~ listAnswers[j].threw /\ listAnswers[j].count >= 1

C27_CallsInOrder ==
    /\ pc \in {"start", "awaitRepoInfo"} => listCalls = <<>> /\ genCalls = <<>> /\ insertCalls = <<>>
    /\ listCalls # <<>> => repoInfo # Null
    /\ genCalls # <<>> =>
           /\ repoInfo # Null
           /\ CommitsWereReturned
           /\ pc \notin {"sweepLoop", "awaitPage", "awaitRecentCommits"}
           /\ IF Comprehensive THEN batches # <<>> ELSE Len(commits) >= 1
    /\ Comprehensive =>
           \A k \in Range(insertCalls) : k \in Range(genCalls) /\ ValidDraft(batchChangelog[k])
    /\ (~ Comprehensive /\ insertCalls # <<>>) => genCalls # <<>> /\ ValidDraft(changelog)
    /\ Len(store) <= Len(insertCalls)

C27_Witness ==
    /\ ReportSent
    /\ ~ req.dryRun
    /\ genCalls = <<1, 2>>
    /\ insertCalls = <<2>>
    /\ batchChangelog[1] = Null
    /\ store = <<result[2]>>

(***************************************************************************)
(* C28: getAllCommitsInBatches terminates for every history and every      *)
(* maxEntries >= 0.  It issues at most maxEntries list-commits requests    *)
(* (none when maxEntries is 0), for the consecutive pages 1, 2, 3, ...:    *)
(* no page is requested twice and none is skipped.                         *)
(***************************************************************************)
SweepEnded == pc \notin {"sweepLoop", "awaitPage"}

SweepRequestsInOrder ==
    /\ Len(listCalls) <= req.maxEntries
    /\ \A j \in DOMAIN listCalls : listCalls[j].page = j
    /\ Len(listAnswers) \in {Len(listCalls), Len(listCalls) - 1}

C28_SweepTerminates == [](SweepRequestsInOrder) /\ <>(SweepEnded)

C28_Witness ==
    /\ SweepEnded
    /\ req.maxEntries = 3
    /\ Len(history) > 3 * PerPage
    /\ [j \in DOMAIN listCalls |-> listCalls[j].page] = <<1, 2, 3>>
    /\ Len(batches) = 3

(***************************************************************************)
(* C29: a request that lacks repoOwner, repoName or githubToken is         *)
(* answered 400 before any call is made to the commit source, the          *)
(* generation service or the store.                                        *)
(***************************************************************************)
LacksRequiredField == req.repoOwner = "" \/ req.repoName = "" \/ req.githubToken = ""

NoExternalCall ==
    /\ repoInfo = Null
    /\ listCalls = <<>> /\ listAnswers = <<>>
    /\ genCalls = <<>>
    /\ insertCalls = <<>> /\ store = <<>>

C29_RejectedBeforeAnyCall ==
    /\ LacksRequiredField =>
           /\ pc \in {"start", "done"}
           /\ pc = "done" => response.status = 400 /\ ~ response.success
           /\ NoExternalCall
    /\ response.status = 400 => LacksRequiredField /\ NoExternalCall

C29_Witness ==
    /\ pc = "done"
    /\ req.repoOwner = "acme" /\ req.repoName = "diffy" /\ req.githubToken = ""
    /\ response = Failure(400, "GitHub token is required")
    /\ NoExternalCall

(***************************************************************************)
(* C30: on the public changelog page, when the owner, repository or        *)
(* category filter changed while earlier list requests were in flight,     *)
(* then once every request has been answered (and no error is shown) the   *)
(* entries shown are those of the filters selected last, whatever the      *)
(* order in which the answers arrived.                                     *)
(***************************************************************************)
C30_ShowsLatestFilters ==
    (pc = "page" /\ view.inflight = {} /\ ~ view.error) =>
        view.changelogs = QueryResult(view.activeFilter, view.selectedOwner, view.selectedRepo)
====
